---- MODULE Spec2Model ----
(***************************************************************************)
(* Model of src/src/imageedit/static/script.js: the page-enhancement       *)
(* script of the image-editing tool.  The document, localStorage and the   *)
(* upload endpoint are the environment; every listener the script attaches *)
(* is one action, and the DOMContentLoaded handler is one action that runs *)
(* the five binders in the order of the source.                            *)
(*                                                                         *)
(* Strings the script concatenates are sequences of tokens: a textarea     *)
(* value is a sequence of characters (the URL being one token), an alert   *)
(* text is the sequence <<prefix, message>>.                               *)
(***************************************************************************)
EXTENDS Integers, Sequences, FiniteSets, TLC

\* ---------------------------------------------------------------- bounds
MaxText == 2       \* longest textarea content the page or the user supplies
MaxUploads == 2    \* change events with a file that the model follows
MaxChanges == 2    \* change events on the auto-submit and style fields
MaxSubmits == 2    \* submit events on the main form

\* ------------------------------------------------------------- document
Null == "null"     \* JavaScript null / undefined / attribute absent

AutoSubmitInputs == {"gallery-width", "gallery-height", "model-name"}
StyleInput == "style-name"
AppendBtn == "append-style-button"
MainForm == "main-form"
ToggleBtn == "theme-toggle"
UploadBtn == "upload-image-btn"
FileInput == "local-image-upload"
UrlsTextarea == "image-urls"

Elements ==
    AutoSubmitInputs \cup
    {StyleInput, AppendBtn, MainForm, ToggleBtn, UploadBtn, FileInput, UrlsTextarea}

\* Elements of the document that may carry class "danger".
DangerEls == {"d1", "d2"}
Tags == {"button", "a", "input"}
ConfirmAttrs == {Null, "", "Delete?"}
GenericConfirm == "Are you sure you want to proceed?"

StoredThemes == {"light", "dark", Null}

\* Submit-capable controls of the main form.
Controls == {"c1", "c2"}
ControlValues == {"run", "save", "RUN"}
OffsetWidths == {80, 120}
OriginalHtml == "label"
GeneratingHtml == "<span>Generating...</span> <span class=\"spinner\"></span>"

\* Forms that own the auto-submit fields.
Forms == {"form-a", "form-b"}
ChangeFields == AutoSubmitInputs \cup {StyleInput}

\* Upload.
Labels == {"Upload image", "Add image"}
UploadingLabel == "Uploading..."
Files == {"f1", "f2"}
Url == "https://x/y.png"
Whitespace == {" ", "\n"}
UserChars == {"a", " "}
AlertPrefix == "Failed to upload image: "
GenericError == "Upload failed"
FetchError == "Failed to fetch"
ParseError == "Unexpected token < in JSON at position 0"

SeqsUpTo(S, n) == UNION {[1..k -> S] : k \in 0..n}
UserTexts == SeqsUpTo(UserChars, MaxText)

VARIABLES
    present,        \* ids that document.getElementById finds
    loaded,         \* "loading" | "ready" | "error" (the startup hook threw)
    listeners,      \* set of <<target, event type>> attached by the binders
    stored,         \* localStorage item 'theme'
    prefersLight,   \* matchMedia('(prefers-color-scheme: light)').matches
    lightClass,     \* document.body.classList contains 'light-theme'
    servedClass,    \* whether the body carried 'light-theme' as the page was served
    themeHist,      \* <<class, stored>> before each of the last two toggle clicks
    dangerCfg,      \* DangerEls -> [tag, danger, attr]
    lastClick,      \* the last click on an element of DangerEls
    ctlValue,       \* Controls -> value attribute of the submit control
    offsetWidth,    \* Controls -> rendered width in pixels
    ctlLabel,       \* Controls -> innerHTML
    ctlLoading,     \* Controls -> classList contains 'loading'
    ctlWidth,       \* Controls -> style.width, <<>> when unset
    submitEvents,   \* submitter -> submit events of the main form so far
    ctlWrites,      \* Controls -> times the listener rewrote the control
    lastSubmit,     \* the last submit event of the main form
    formOf,         \* AutoSubmitInputs -> owning form (e.target.form)
    changeEvents,   \* field -> change events dispatched so far
    submitCalls,    \* form -> calls of form.submit() by the script
    clickCalls,     \* calls of appendBtn.click() by the script
    listenerErrors, \* errors thrown by the change listeners
    pageLabel,      \* the upload button's label as the page was served
    btnText,        \* uploadBtn.textContent
    btnDisabled,    \* uploadBtn.disabled
    files,          \* fileInput.files[0], Null when the selection is empty
    dialogOpen,     \* the native file-selection dialog is showing
    textarea,       \* urlsTextarea.value
    tasks,          \* one entry per invocation of the async change listener
    lastDone        \* what the invocation that just finished did

themeVars == <<stored, prefersLight, lightClass, servedClass, themeHist>>
confirmVars == <<dangerCfg, lastClick>>
loadingVars ==
    <<ctlValue, offsetWidth, ctlLabel, ctlLoading, ctlWidth, submitEvents,
      ctlWrites, lastSubmit>>
autoVars == <<formOf, changeEvents, submitCalls, clickCalls, listenerErrors>>
uploadVars ==
    <<pageLabel, btnText, btnDisabled, files, dialogOpen, textarea, tasks, lastDone>>
vars ==
    <<present, loaded, listeners, themeVars, confirmVars, loadingVars, autoVars,
      uploadVars>>

\* ------------------------------------------------------- initThemeToggle
Falsy(v) == v \in {Null, ""}

\* As ThemeApplies, with the OS preference taken even when a theme is stored.
ThemeAppliesIgnoringStored(savedTheme, prefers) == savedTheme = "light" \/ prefers

\* script.js:16  savedTheme === 'light' || (!savedTheme && prefersLight)
ThemeApplies(savedTheme, prefers) ==
    savedTheme = "light" \/ (Falsy(savedTheme) /\ prefers)

\* script.js:17  classList.add only ever adds the class
ClassAfterInit(before, savedTheme, prefers) ==
    before \/ ThemeApplies(savedTheme, prefers)

\* script.js:20  toggleBtn.addEventListener on a null toggleBtn throws
ThemeToggleThrows == ToggleBtn \notin present

ThemeListeners == {<<ToggleBtn, "click">>}

\* As PersistedTheme, with isLight read before the class was toggled.
PersistedThemeStale(isLight) == IF isLight THEN "dark" ELSE "light"

\* script.js:22-23  the value persisted after the class was toggled to isLight
PersistedTheme(isLight) == IF isLight THEN "light" ELSE "dark"

\* -------------------------------------------------------- initAutoSubmit
AutoSubmitListeners ==
    {<<id, "change">> : id \in (AutoSubmitInputs \cap present)} \cup
    (IF StyleInput \in present THEN {<<StyleInput, "change">>} ELSE {})

\* ----------------------------------------------------- initLoadingStates
LoadingListeners ==
    IF MainForm \in present THEN {<<MainForm, "submit">>} ELSE {}

\* ----------------------------------------------------- initConfirmations
\* script.js:91  querySelectorAll('button.danger')
MatchesDangerSelector(el) == el.tag = "button" /\ el.danger

ConfirmListeners ==
    {<<d, "click">> : d \in {e \in DangerEls : MatchesDangerSelector(dangerCfg[e])}}

\* script.js:95  getAttribute('data-confirm') || generic
ConfirmMessage(attr) == IF Falsy(attr) THEN GenericConfirm ELSE attr

\* ------------------------------------------------------- initImageUpload
\* As UploadElementsPresent, without the check of the textarea.
UploadElementsPresentLoose == {UploadBtn, FileInput} \subseteq present

UploadElementsPresent == {UploadBtn, FileInput, UrlsTextarea} \subseteq present

UploadListeners ==
    IF UploadElementsPresent
    THEN {<<UploadBtn, "click">>, <<FileInput, "change">>}
    ELSE {}

\* ------------------------------------------------ DOMContentLoaded handler
\* script.js:2-4  the binders that run before initThemeToggle
BindersBeforeTheme == AutoSubmitListeners \cup LoadingListeners \cup ConfirmListeners

\* script.js:1-7  the startup hook; an exception in initThemeToggle ends it
\* before initImageUpload is called.
DOMContentLoaded ==
    /\ loaded = "loading"
    /\ lightClass' = ClassAfterInit(lightClass, stored, prefersLight)
    /\ IF ThemeToggleThrows
       THEN /\ listeners' = BindersBeforeTheme
            /\ loaded' = "error"
       ELSE /\ listeners' = BindersBeforeTheme \cup ThemeListeners \cup UploadListeners
            /\ loaded' = "ready"
    /\ UNCHANGED <<present, stored, prefersLight, servedClass, themeHist,
                   confirmVars, loadingVars, autoVars, uploadVars>>

\* ------------------------------------------------------ theme toggle click
LastTwo(s) == IF Len(s) > 2 THEN SubSeq(s, Len(s) - 1, Len(s)) ELSE s

\* script.js:20-24
ToggleClick ==
    /\ loaded # "loading"
    /\ <<ToggleBtn, "click">> \in listeners
    /\ lightClass' = ~lightClass
    /\ stored' = PersistedTheme(lightClass')
    /\ themeHist' = LastTwo(Append(themeHist, [cls |-> lightClass, stored |-> stored]))
    /\ UNCHANGED <<present, loaded, listeners, prefersLight, servedClass,
                   confirmVars, loadingVars, autoVars, uploadVars>>

\* ------------------------------------------------- click on a danger element
\* As ClickPrevented, with the test of confirm() inverted.
ClickPreventedInverted(confirmed) == confirmed

\* script.js:96-98  preventDefault exactly when confirm() returned false
ClickPrevented(confirmed) == ~confirmed

NoClick == [el |-> Null, answer |-> FALSE, prompts |-> <<>>, prevented |-> FALSE]

\* script.js:94-99  `answer` is what the user answers if a prompt is shown
DangerClick(d, answer) ==
    /\ loaded # "loading"
    /\ LET bound == <<d, "click">> \in listeners
       IN lastClick' =
              [el |-> d,
               answer |-> answer,
               prompts |-> IF bound THEN <<ConfirmMessage(dangerCfg[d].attr)>> ELSE <<>>,
               prevented |-> bound /\ ClickPrevented(answer)]
    /\ UNCHANGED <<present, loaded, listeners, themeVars, dangerCfg,
                   loadingVars, autoVars, uploadVars>>

\* ------------------------------------------------- submit of the main form
\* As ShowsLoading, without the test of the submitter's value.
ShowsLoadingAny(submitter) == submitter # Null

\* script.js:71  submitter && submitter.value === 'run'
ShowsLoading(submitter) == submitter # Null /\ ctlValue[submitter] = "run"

\* script.js:75  `${originalWidth}px`
Px(w) == <<w, "px">>

NoSubmit == [submitter |-> Null, fired |-> FALSE, prevented |-> FALSE]

\* script.js:65-83  the listener never calls preventDefault
Submit(s) ==
    /\ loaded # "loading"
    /\ MainForm \in present
    /\ submitEvents[s] < MaxSubmits
    /\ submitEvents' = [submitEvents EXCEPT ![s] = @ + 1]
    /\ lastSubmit' = [submitter |-> s, fired |-> TRUE, prevented |-> FALSE]
    /\ IF <<MainForm, "submit">> \in listeners /\ ShowsLoading(s)
       THEN /\ ctlWidth' = [ctlWidth EXCEPT ![s] = Px(offsetWidth[s])]
            /\ ctlLabel' = [ctlLabel EXCEPT ![s] = GeneratingHtml]
            /\ ctlLoading' = [ctlLoading EXCEPT ![s] = TRUE]
            /\ ctlWrites' = [ctlWrites EXCEPT ![s] = @ + 1]
       ELSE UNCHANGED <<ctlWidth, ctlLabel, ctlLoading, ctlWrites>>
    /\ UNCHANGED <<present, loaded, listeners, themeVars, confirmVars,
                   ctlValue, offsetWidth, autoVars, uploadVars>>

\* ------------------------------------------------- change on a bound field
\* As SubmitsForm, with the style field in the auto-submit list.
SubmitsFormAll(f) == f \in ChangeFields

\* script.js:32-45  the fields whose listener submits the owning form
SubmitsForm(f) == f \in AutoSubmitInputs

\* script.js:41-43 and 50-54
FieldChange(f) ==
    /\ loaded # "loading"
    /\ f \in present
    /\ changeEvents[f] < MaxChanges
    /\ changeEvents' = [changeEvents EXCEPT ![f] = @ + 1]
    /\ IF <<f, "change">> \notin listeners
       THEN UNCHANGED <<submitCalls, clickCalls, listenerErrors>>
       ELSE IF SubmitsForm(f)
       THEN IF formOf[f] = Null
            THEN /\ listenerErrors' = listenerErrors + 1
                 /\ UNCHANGED <<submitCalls, clickCalls>>
            ELSE /\ submitCalls' = [submitCalls EXCEPT ![formOf[f]] = @ + 1]
                 /\ UNCHANGED <<clickCalls, listenerErrors>>
       ELSE IF AppendBtn \in present
            THEN /\ clickCalls' = clickCalls + 1
                 /\ UNCHANGED <<submitCalls, listenerErrors>>
            ELSE UNCHANGED <<submitCalls, clickCalls, listenerErrors>>
    /\ UNCHANGED <<present, loaded, listeners, themeVars, confirmVars,
                   loadingVars, formOf, uploadVars>>

\* ------------------------------------------------------------------ upload
IsSpace(c) == c \in Whitespace

RECURSIVE TrimStart(_)
TrimStart(s) == IF s # <<>> /\ IsSpace(Head(s)) THEN TrimStart(Tail(s)) ELSE s

RECURSIVE TrimEnd(_)
TrimEnd(s) ==
    IF s # <<>> /\ IsSpace(s[Len(s)]) THEN TrimEnd(SubSeq(s, 1, Len(s) - 1)) ELSE s

\* script.js:144  String.prototype.trim strips both ends
Trim(s) == TrimEnd(TrimStart(s))

\* script.js:141  data.url, converted to a string when it is concatenated or
\* assigned to the textarea's value
UrlText(url) == IF url = Null THEN "undefined" ELSE url

\* As AppendUrl, without the trim of the existing content.
AppendUrlUntrimmed(value, url) ==
    IF value # <<>> THEN value \o <<"\n", url>> ELSE <<url>>

\* script.js:144-149
AppendUrl(value, url) ==
    LET currentVal == Trim(value)
    IN  IF currentVal # <<>> THEN currentVal \o <<"\n", url>> ELSE <<url>>

\* What fetch('/api/upload') can settle with: a rejection, or a response
\* with a status and a body that is JSON or not.
NoResp == [status |-> "none", json |-> FALSE, error |-> Null, url |-> Null]
Responses ==
    {[status |-> "reject", json |-> FALSE, error |-> Null, url |-> Null]} \cup
    {[status |-> st, json |-> FALSE, error |-> Null, url |-> Null] : st \in {"ok", "fail"}} \cup
    {[status |-> "ok", json |-> TRUE, error |-> Null, url |-> u] : u \in {Url, Null}} \cup
    {[status |-> "fail", json |-> TRUE, error |-> e, url |-> Null] :
        e \in {Null, "", "too large"}}

\* script.js:130-140  what makes the try block throw
Throws(r) == r.status = "reject" \/ ~r.json \/ r.status = "fail"

\* script.js:136-137  err.message of what the try block throws: response.json()
\* rejects before the Error of line 137 is built
ThrownMessage(r) ==
    IF r.status = "reject" THEN FetchError
    ELSE IF ~r.json THEN ParseError
    ELSE IF Falsy(r.error) THEN GenericError ELSE r.error

\* script.js:153
AlertText(message) == <<AlertPrefix, message>>

DoneTask == [phase |-> "done", originalText |-> Null, resp |-> NoResp]
NoDone ==
    [id |-> 0, resp |-> NoResp, seen |-> <<>>, after |-> <<>>, alerts |-> <<>>,
     others |-> 0]

Pending == {i \in DOMAIN tasks : tasks[i].phase \in {"fetch", "json"}}

\* script.js:113-115  a disabled button dispatches no click
UploadBtnClick ==
    /\ loaded # "loading"
    /\ <<UploadBtn, "click">> \in listeners
    /\ ~btnDisabled
    /\ ~dialogOpen
    /\ dialogOpen' = TRUE
    /\ lastDone' = NoDone
    /\ UNCHANGED <<present, loaded, listeners, themeVars, confirmVars, loadingVars,
                   autoVars, pageLabel, btnText, btnDisabled, files, textarea, tasks>>

\* The user activates the file input itself; the script never disables it.
FileInputActivate ==
    /\ loaded # "loading"
    /\ FileInput \in present
    /\ ~dialogOpen
    /\ dialogOpen' = TRUE
    /\ lastDone' = NoDone
    /\ UNCHANGED <<present, loaded, listeners, themeVars, confirmVars, loadingVars,
                   autoVars, pageLabel, btnText, btnDisabled, files, textarea, tasks>>

\* The dialog is closed without changing the selection: no change event.
DialogDismiss ==
    /\ dialogOpen
    /\ dialogOpen' = FALSE
    /\ lastDone' = NoDone
    /\ UNCHANGED <<present, loaded, listeners, themeVars, confirmVars, loadingVars,
                   autoVars, pageLabel, btnText, btnDisabled, files, textarea, tasks>>

\* script.js:117-133  the selection changes to f and the change listener runs
\* up to its first await
FileInputChange(f) ==
    /\ dialogOpen
    /\ f # files
    /\ dialogOpen' = FALSE
    /\ files' = f
    /\ lastDone' = NoDone
    /\ IF <<FileInput, "change">> \in listeners /\ f # Null
       THEN /\ Len(tasks) < MaxUploads
            /\ tasks' = Append(tasks, [phase |-> "fetch", originalText |-> btnText,
                                       resp |-> NoResp])
            /\ btnText' = UploadingLabel
            /\ btnDisabled' = TRUE
       ELSE UNCHANGED <<tasks, btnText, btnDisabled>>
    /\ UNCHANGED <<present, loaded, listeners, themeVars, confirmVars, loadingVars,
                   autoVars, pageLabel, textarea>>

\* script.js:151-159  catch (alerts) and finally of invocation i
Finish(i, r, value, shown) ==
    /\ textarea' = value
    /\ btnText' = tasks[i].originalText
    /\ btnDisabled' = FALSE
    /\ files' = Null
    /\ tasks' = [tasks EXCEPT ![i] = DoneTask]
    /\ lastDone' =
           [id |-> i, resp |-> r, seen |-> textarea, after |-> value,
            alerts |-> shown, others |-> Cardinality(Pending \ {i})]

\* script.js:130-133  fetch settles for invocation i
FetchSettles(i, r) ==
    /\ i \in DOMAIN tasks
    /\ tasks[i].phase = "fetch"
    /\ IF r.status = "reject"
       THEN Finish(i, r, textarea, <<AlertText(ThrownMessage(r))>>)
       ELSE /\ tasks' = [tasks EXCEPT ![i] = [@ EXCEPT !.phase = "json", !.resp = r]]
            /\ lastDone' = NoDone
            /\ UNCHANGED <<btnText, btnDisabled, files, textarea>>
    /\ UNCHANGED <<present, loaded, listeners, themeVars, confirmVars, loadingVars,
                   autoVars, pageLabel, dialogOpen>>

\* script.js:135-159  response.json() settles for invocation i
JsonSettles(i) ==
    /\ i \in DOMAIN tasks
    /\ tasks[i].phase = "json"
    /\ LET r == tasks[i].resp
       IN  IF Throws(r)
           THEN Finish(i, r, textarea, <<AlertText(ThrownMessage(r))>>)
           ELSE Finish(i, r, AppendUrl(textarea, UrlText(r.url)), <<>>)
    /\ UNCHANGED <<present, loaded, listeners, themeVars, confirmVars, loadingVars,
                   autoVars, pageLabel, dialogOpen>>

\* The user types into the textarea.
UserEdit(t) ==
    /\ loaded # "loading"
    /\ UrlsTextarea \in present
    /\ t # textarea
    /\ textarea' = t
    /\ lastDone' = NoDone
    /\ UNCHANGED <<present, loaded, listeners, themeVars, confirmVars, loadingVars,
                   autoVars, pageLabel, btnText, btnDisabled, files, dialogOpen, tasks>>

\* ------------------------------------------------------------ initial states
ThemeServed ==
    /\ stored \in StoredThemes
    /\ prefersLight \in BOOLEAN
    /\ lightClass \in BOOLEAN
    /\ servedClass = lightClass
    /\ themeHist = <<>>

ThemeDefault ==
    /\ stored = Null
    /\ prefersLight = FALSE
    /\ lightClass = FALSE
    /\ servedClass = FALSE
    /\ themeHist = <<>>

DangerServed ==
    /\ dangerCfg \in [DangerEls -> [tag : Tags, danger : BOOLEAN, attr : ConfirmAttrs]]
    /\ lastClick = NoClick

DangerDefault ==
    /\ dangerCfg = [d \in DangerEls |-> [tag |-> "button", danger |-> TRUE, attr |-> Null]]
    /\ lastClick = NoClick

ControlsUntouched ==
    /\ ctlLabel = [c \in Controls |-> OriginalHtml]
    /\ ctlLoading = [c \in Controls |-> FALSE]
    /\ ctlWidth = [c \in Controls |-> <<>>]
    /\ submitEvents = [c \in Controls \cup {Null} |-> 0]
    /\ ctlWrites = [c \in Controls |-> 0]
    /\ lastSubmit = NoSubmit

LoadingServed ==
    /\ ctlValue \in [Controls -> ControlValues]
    /\ offsetWidth \in [Controls -> OffsetWidths]
    /\ ControlsUntouched

LoadingDefault ==
    /\ ctlValue = [c \in Controls |-> "run"]
    /\ offsetWidth = [c \in Controls |-> 80]
    /\ ControlsUntouched

AutoUntouched ==
    /\ changeEvents = [f \in ChangeFields |-> 0]
    /\ submitCalls = [F \in Forms |-> 0]
    /\ clickCalls = 0
    /\ listenerErrors = 0

AutoServed ==
    /\ formOf \in [ChangeFields -> Forms \cup {Null}]
    /\ AutoUntouched

AutoDefault ==
    /\ formOf = [f \in ChangeFields |-> "form-a"]
    /\ AutoUntouched

UploadIdle ==
    /\ btnText = pageLabel
    /\ btnDisabled = FALSE
    /\ files = Null
    /\ dialogOpen = FALSE
    /\ tasks = <<>>
    /\ lastDone = NoDone

UploadServed ==
    /\ pageLabel \in Labels
    /\ textarea \in UserTexts
    /\ UploadIdle

UploadDefault ==
    /\ pageLabel = "Upload image"
    /\ textarea = <<>>
    /\ UploadIdle

Unloaded ==
    /\ loaded = "loading"
    /\ listeners = {}

\* The page as served: any of the elements the script looks up may be missing.
InitStartup ==
    /\ Unloaded
    /\ present \in SUBSET Elements
    /\ ThemeServed /\ DangerDefault /\ LoadingDefault /\ AutoDefault /\ UploadDefault

NextStartup == DOMContentLoaded \/ ToggleClick

SpecStartup == InitStartup /\ [][NextStartup]_vars

\* The page as the server renders it: the body carries no theme class.
InitTheme ==
    /\ Unloaded
    /\ present \in {Elements \ X : X \in SUBSET {UploadBtn, FileInput, UrlsTextarea}}
    /\ ThemeServed /\ ~servedClass
    /\ DangerDefault /\ LoadingDefault /\ AutoDefault /\ UploadDefault

SpecTheme == InitTheme /\ [][NextStartup]_vars

InitConfirm ==
    /\ Unloaded
    /\ present = Elements
    /\ ThemeDefault /\ DangerServed /\ LoadingDefault /\ AutoDefault /\ UploadDefault

NextConfirm ==
    \/ DOMContentLoaded
    \/ \E d \in DangerEls, answer \in BOOLEAN : DangerClick(d, answer)

SpecConfirm == InitConfirm /\ [][NextConfirm]_vars

InitLoading ==
    /\ Unloaded
    /\ present \in {Elements, Elements \ {ToggleBtn}}
    /\ ThemeDefault /\ DangerDefault /\ LoadingServed /\ AutoDefault /\ UploadDefault

NextLoading ==
    \/ DOMContentLoaded
    \/ \E s \in Controls \cup {Null} : Submit(s)

SpecLoading == InitLoading /\ [][NextLoading]_vars

InitAuto ==
    /\ Unloaded
    /\ present \in {Elements \ X : X \in SUBSET {AppendBtn, StyleInput, "model-name"}}
    /\ ThemeDefault /\ DangerDefault /\ LoadingDefault /\ AutoServed /\ UploadDefault

NextAuto ==
    \/ DOMContentLoaded
    \/ \E f \in ChangeFields : FieldChange(f)

SpecAuto == InitAuto /\ [][NextAuto]_vars

InitUpload ==
    /\ Unloaded
    /\ present = Elements
    /\ ThemeDefault /\ DangerDefault /\ LoadingDefault /\ AutoDefault /\ UploadServed

NextUpload ==
    \/ DOMContentLoaded
    \/ UploadBtnClick
    \/ FileInputActivate
    \/ DialogDismiss
    \/ \E f \in Files \cup {Null} : FileInputChange(f)
    \/ \E i \in 1..MaxUploads, r \in Responses : FetchSettles(i, r)
    \/ \E i \in 1..MaxUploads : JsonSettles(i)
    \/ \E t \in UserTexts : UserEdit(t)

SpecUpload == InitUpload /\ [][NextUpload]_vars

\* The transport settles every request and every body read (script.js:130,
\* 136, 140: no timeout, no cancellation), so each await resumes.
SpecUploadFair ==
    /\ SpecUpload
    /\ \A i \in 1..MaxUploads :
          /\ WF_vars(\E r \in Responses : FetchSettles(i, r))
          /\ WF_vars(JsonSettles(i))

\* ================================================================= claims

\* ------------------------------------------------------------- theme (C4, C5)
ThemeName(cls) == IF cls THEN "light" ELSE "dark"

\* C4 as stated: after two clicks on the theme toggle the light-theme class
\* and the persisted 'theme' value are both what they were before the two
\* clicks, whatever was stored (light, dark or nothing).
ToggleTwiceRestoresClassAndStored ==
    Len(themeHist) = 2 =>
        /\ lightClass = themeHist[1].cls
        /\ stored = themeHist[1].stored

\* C4 amended: after two clicks on the theme toggle the light-theme class is
\* what it was before the two clicks, and the persisted value names that class
\* state ('light' when present, 'dark' when absent); it is the value stored
\* before the two clicks only when that value already named the class state.
ToggleTwiceRestoresClass ==
    Len(themeHist) = 2 =>
        /\ lightClass = themeHist[1].cls
        /\ stored = ThemeName(themeHist[1].cls)
        /\ (themeHist[1].stored = ThemeName(themeHist[1].cls) => stored = themeHist[1].stored)

ToggledTwiceFromNothingStored ==
    /\ Len(themeHist) = 2
    /\ themeHist[1].stored = Null
    /\ themeHist[1].cls

JustInitialized == loaded # "loading" /\ themeHist = <<>>

\* C5 as stated: right after page-load initialization the light-theme class
\* is on the body if and only if 'light' is stored, or nothing is stored and
\* the OS prefers light, whatever the body's class state was before.
InitClassMatchesStoredTheme ==
    JustInitialized =>
        (lightClass <=> (stored = "light" \/ (stored = Null /\ prefersLight)))

\* C5 amended: right after page-load initialization the light-theme class is
\* on the body if and only if 'light' is stored, or nothing is stored and the
\* OS prefers light, or the body already carried the class as served:
\* initialization adds the class and never removes it.
InitClassAddedNeverRemoved ==
    JustInitialized =>
        (lightClass <=>
            (stored = "light" \/ (stored = Null /\ prefersLight) \/ servedClass))

InitializedOverServedClass ==
    /\ JustInitialized
    /\ servedClass
    /\ stored = "dark"
    /\ lightClass

\* ----------------------------------------------------------------- startup (C8)
Bound(target, type) == <<target, type>> \in listeners

BindersBeforeThemeAttached ==
    /\ \A f \in ChangeFields : Bound(f, "change") <=> f \in present
    /\ Bound(MainForm, "submit") <=> MainForm \in present
    /\ \A d \in DangerEls : Bound(d, "click")

UploadNeeds == {UploadBtn, FileInput, UrlsTextarea}

\* C8 as stated: whatever subset of the looked-up elements is missing, the
\* theme toggle included, startup raises no error and every binder whose
\* elements exist attaches its listeners.
StartupToleratesAnyMissingElement ==
    loaded # "loading" =>
        /\ loaded = "ready"
        /\ BindersBeforeThemeAttached
        /\ Bound(ToggleBtn, "click") <=> ToggleBtn \in present
        /\ Bound(UploadBtn, "click") <=> UploadNeeds \subseteq present
        /\ Bound(FileInput, "change") <=> UploadNeeds \subseteq present

\* C8 amended: startup raises an error exactly when the theme toggle is
\* missing.  The auto-submit, loading-state and confirmation binders attach
\* for every element that exists in either case; the toggle listener is
\* attached when the toggle exists, and the upload binder attaches exactly
\* when the toggle and its own three elements all exist.
StartupToleratesAllButToggle ==
    loaded # "loading" =>
        /\ loaded = "error" <=> ToggleBtn \notin present
        /\ BindersBeforeThemeAttached
        /\ Bound(ToggleBtn, "click") <=> ToggleBtn \in present
        /\ Bound(UploadBtn, "click") <=> (UploadNeeds \cup {ToggleBtn}) \subseteq present
        /\ Bound(FileInput, "change") <=> (UploadNeeds \cup {ToggleBtn}) \subseteq present

StartedWithoutToggle ==
    /\ loaded = "error"
    /\ UploadNeeds \subseteq present
    /\ ~Bound(UploadBtn, "click")
    /\ Bound(MainForm, "submit")

StartedWithoutTextarea ==
    /\ loaded = "ready"
    /\ UrlsTextarea \notin present
    /\ {UploadBtn, FileInput} \subseteq present

\* ------------------------------------------------------------ confirmations (C6)
Clicked == lastClick.el # Null
ClickedCfg == dangerCfg[lastClick.el]

\* C6 as stated: a click on any element with class 'danger' shows exactly
\* one prompt, with the element's data-confirm attribute or the generic
\* message when the attribute is absent, and is prevented iff declined.
EveryDangerElementConfirms ==
    (Clicked /\ ClickedCfg.danger) =>
        /\ Len(lastClick.prompts) = 1
        /\ lastClick.prompts[1] =
               (IF ClickedCfg.attr = Null THEN GenericConfirm ELSE ClickedCfg.attr)
        /\ lastClick.prevented <=> ~lastClick.answer

\* C6 amended: a click on a button element with class 'danger' shows exactly
\* one prompt, with the element's data-confirm attribute, or the generic
\* message when the attribute is absent or empty, and is prevented iff
\* declined; any other element, class 'danger' or not, shows no prompt and
\* is never prevented.
EveryDangerButtonConfirms ==
    Clicked =>
        IF ClickedCfg.danger /\ ClickedCfg.tag = "button"
        THEN /\ Len(lastClick.prompts) = 1
             /\ lastClick.prompts[1] =
                    (IF ClickedCfg.attr \in {Null, ""}
                     THEN GenericConfirm ELSE ClickedCfg.attr)
             /\ lastClick.prevented <=> ~lastClick.answer
        ELSE /\ lastClick.prompts = <<>>
             /\ ~lastClick.prevented

DangerButtonDeclined ==
    /\ Clicked
    /\ ClickedCfg.danger /\ ClickedCfg.tag = "button" /\ ClickedCfg.attr = "Delete?"
    /\ ~lastClick.answer
    /\ lastClick.prevented

DangerLinkClicked ==
    /\ Clicked
    /\ ClickedCfg.danger /\ ClickedCfg.tag = "a"
    /\ ~lastClick.answer

\* ------------------------------------------------------------ loading state (C7)
Untouched(c) ==
    /\ ctlLabel[c] = OriginalHtml
    /\ ~ctlLoading[c]
    /\ ctlWidth[c] = <<>>

\* C7: a control of the main form is rewritten once per submit event it
\* triggers if its value is 'run' (width frozen at its rendered width, label
\* replaced, class 'loading' added) and never otherwise; submissions by other
\* controls or without a submitter rewrite nothing; the listener never
\* prevents the submission.
RunSubmitterAloneShowsLoading ==
    /\ \A c \in Controls :
          IF ctlValue[c] = "run"
          THEN /\ ctlWrites[c] = submitEvents[c]
               /\ IF submitEvents[c] = 0
                  THEN Untouched(c)
                  ELSE /\ ctlLabel[c] = GeneratingHtml
                       /\ ctlLoading[c]
                       /\ ctlWidth[c] = <<offsetWidth[c], "px">>
          ELSE /\ ctlWrites[c] = 0
               /\ Untouched(c)
    /\ ~lastSubmit.prevented

SubmittedByRunAndByOther ==
    /\ \E c \in Controls : ctlValue[c] = "run" /\ submitEvents[c] = MaxSubmits
    /\ \E c \in Controls : ctlValue[c] # "run" /\ submitEvents[c] > 0
    /\ submitEvents[Null] > 0

\* -------------------------------------------------------------- auto-submit (C9)
RECURSIVE SumOver(_, _)
SumOver(S, g) ==
    IF S = {} THEN 0
    ELSE LET x == CHOOSE y \in S : TRUE IN g[x] + SumOver(S \ {x}, g)

\* C9: the script has called submit() on each form once per change event of
\* the present auto-submit fields that form owns, and has called click() on
\* the append-style button once per change event of the style field when
\* the button exists (never otherwise); change events of the style field
\* add no call of submit().
ChangeSubmitsOwningFormOnce ==
    /\ \A F \in Forms :
          submitCalls[F] =
              SumOver({f \in AutoSubmitInputs \cap present : formOf[f] = F}, changeEvents)
    /\ clickCalls = (IF AppendBtn \in present THEN changeEvents[StyleInput] ELSE 0)

ChangedStyleAndAutoSubmitField ==
    /\ AppendBtn \in present
    /\ changeEvents[StyleInput] = MaxChanges
    /\ formOf[StyleInput] # Null
    /\ \E f \in AutoSubmitInputs : changeEvents[f] = MaxChanges /\ formOf[f] # Null

\* ------------------------------------------------------ upload (C1, C2, C3, C10)
Finished == lastDone.id # 0

\* C1 as stated (its safety part): when an invocation of the upload listener
\* finishes, by success, failure status or exception, the upload button is
\* enabled, its label is the one it had while idle, and the file input's
\* selection is empty.
FinishedUploadRestoresIdleUi ==
    Finished =>
        /\ ~btnDisabled
        /\ btnText = pageLabel
        /\ files = Null

\* The liveness part of C1: every invocation of the upload listener that
\* started a request finishes.
EveryUploadFinishes ==
    \A i \in 1..MaxUploads :
        (i \in Pending) ~> (i \in DOMAIN tasks /\ tasks[i].phase = "done")

\* C10 as stated: the upload button is disabled and labelled 'Uploading...'
\* in exactly the states where an upload request is pending, and at most one
\* request is pending.
UploadingExactlyWhilePending ==
    loaded = "ready" =>
        /\ (btnDisabled /\ btnText = UploadingLabel) <=> Pending # {}
        /\ Cardinality(Pending) <= 1

Contains(text, part) == \E k \in DOMAIN text : text[k] = part

\* C3 as stated: on a failure status exactly one alert is shown and the
\* textarea is not modified; the alert contains the body's "error" when the
\* body is JSON with a non-empty "error", and contains 'Upload failed' both
\* when "error" is absent and when the body is not JSON.
FailureAlertsErrorOrGeneric ==
    (Finished /\ lastDone.resp.status = "fail") =>
        /\ Len(lastDone.alerts) = 1
        /\ lastDone.after = lastDone.seen
        /\ textarea = lastDone.seen
        /\ (lastDone.resp.json /\ ~Falsy(lastDone.resp.error))
              => Contains(lastDone.alerts[1], lastDone.resp.error)
        /\ (~lastDone.resp.json \/ lastDone.resp.error = Null)
              => Contains(lastDone.alerts[1], GenericError)

SucceededWithUrl ==
    /\ Finished
    /\ lastDone.resp.status = "ok"
    /\ lastDone.resp.json
    /\ lastDone.resp.url # Null

AllSpace(s, from, to) == \A k \in from..to : IsSpace(s[k])

\* s without its trailing whitespace: the prefix of s that ends with the last
\* character of s that is not whitespace.
WithoutTrailingSpace(s) ==
    CHOOSE r \in {SubSeq(s, 1, n) : n \in 0..Len(s)} :
        /\ AllSpace(s, Len(r) + 1, Len(s))
        /\ (r # <<>> => ~IsSpace(r[Len(r)]))

Part(s, a, b) == IF a > b THEN <<>> ELSE SubSeq(s, a, b)

\* s without its leading and trailing whitespace: the part of s from its
\* first to its last character that is not whitespace.
WithoutOuterSpace(s) ==
    CHOOSE r \in {Part(s, a, b) : a \in 1..(Len(s) + 1), b \in 0..Len(s)} :
        \E a \in 1..(Len(s) + 1), b \in 0..Len(s) :
            /\ r = Part(s, a, b)
            /\ AllSpace(s, 1, a - 1)
            /\ AllSpace(s, b + 1, Len(s))
            /\ (r # <<>> => ~IsSpace(r[1]) /\ ~IsSpace(r[Len(r)]))

\* C2 as stated: after a successful upload with url U the textarea is U when
\* it was empty, and otherwise its value when the response arrived with only
\* the trailing whitespace removed, then a newline, then U.
UrlAppendedAfterTrailingTrim ==
    SucceededWithUrl =>
        textarea =
            (IF lastDone.seen = <<>>
             THEN <<lastDone.resp.url>>
             ELSE WithoutTrailingSpace(lastDone.seen) \o <<"\n", lastDone.resp.url>>)

\* C2 amended: after a successful upload with url U the textarea is U when
\* it was empty or held only whitespace, and otherwise its value when the
\* response body was read with its leading and its trailing whitespace
\* removed, then a newline, then U.
UrlAppendedAfterTrim ==
    SucceededWithUrl =>
        textarea =
            (IF WithoutOuterSpace(lastDone.seen) = <<>>
             THEN <<lastDone.resp.url>>
             ELSE WithoutOuterSpace(lastDone.seen) \o <<"\n", lastDone.resp.url>>)

UrlAppendedToEditedText ==
    /\ SucceededWithUrl
    /\ Len(lastDone.seen) > 1
    /\ IsSpace(lastDone.seen[1])
    /\ ~IsSpace(lastDone.seen[Len(lastDone.seen)])
    /\ lastDone.id = 2
====
